---------------------------- MODULE Spec2Model ----------------------------
(* The notebook assignment_outliers_002.ipynb as a state machine.            *)
(*                                                                           *)
(* The state is the namespace of the notebook kernel (the variables the code *)
(* cells assign), the output area of the cell being executed, and the        *)
(* position of the kernel inside that cell.  The five code cells (baseline,  *)
(* isolation forest, elliptic envelope, local outlier factor, one-class SVM) *)
(* may be executed in any order, any number of times; a cell runs from its   *)
(* first statement to its last, or to the statement that raises.             *)
(*                                                                           *)
(* Numbers are exact: a real is a fraction <<numerator, denominator>> in     *)
(* lowest terms with a positive denominator.                                 *)
EXTENDS Integers, Sequences, FiniteSets, Bags, TLC

----------------------------------------------------------------------------
(* Bounds of the model.                                                      *)

\* the longest dataset the small specification loads
MaxRows == 5
\* SpecMAE: the test targets range over 0..MaxErr, the predictions over the
\* halves from -MaxErr/2 to MaxErr/2
MaxErr == 2
\* SpecMAE: the longest test set
MaxTest == 2

----------------------------------------------------------------------------
(* Exact arithmetic.                                                         *)

Abs(n) == IF n < 0 THEN -n ELSE n

RECURSIVE Gcd(_, _)
Gcd(a, b) == IF b = 0 THEN a ELSE Gcd(b, a % b)

\* the fraction n/d (d # 0) in lowest terms, denominator positive
Q(n, d) ==
    LET g == Gcd(Abs(n), Abs(d))
        s == IF d < 0 THEN -1 ELSE 1
    IN  <<(s * n) \div g, (s * d) \div g>>

QInt(n) == <<n, 1>>
QAdd(a, b) == Q(a[1] * b[2] + b[1] * a[2], a[2] * b[2])
QSub(a, b) == Q(a[1] * b[2] - b[1] * a[2], a[2] * b[2])
QMul(a, b) == Q(a[1] * b[1], a[2] * b[2])
QDiv(a, b) == Q(a[1] * b[2], a[2] * b[1])
QAbs(a) == <<Abs(a[1]), a[2]>>
QLess(a, b) == a[1] * b[2] < b[1] * a[2]

RECURSIVE QSum(_)
QSum(s) == IF s = <<>> THEN QInt(0) ELSE QAdd(Head(s), QSum(Tail(s)))

RECURSIVE Sum(_)
Sum(s) == IF s = <<>> THEN 0 ELSE Head(s) + Sum(Tail(s))

\* the ceiling of n/d, for n >= 0 and d > 0
Ceil(n, d) == (n + d - 1) \div d

----------------------------------------------------------------------------
(* numpy indexing.                                                           *)

\* a[idx] for a sequence idx of row numbers: the rows of a at idx, in idx's order
Take(a, idx) == [k \in 1..Len(idx) |-> a[idx[k]]]

\* the positions lo..hi of a boolean vector that hold TRUE, ascending
RECURSIVE WhereIn(_, _, _)
WhereIn(m, lo, hi) ==
    IF lo > hi THEN <<>>
    ELSE IF lo = hi THEN (IF m[lo] THEN <<lo>> ELSE <<>>)
    ELSE LET mid == (lo + hi) \div 2
         IN  WhereIn(m, lo, mid) \o WhereIn(m, mid + 1, hi)

\* the TRUE positions listed from the last to the first
WhereDescending(m) ==
    LET up == WhereIn(m, 1, Len(m))
    IN  [k \in 1..Len(up) |-> up[Len(up) + 1 - k]]

\* the positions of a boolean vector that hold TRUE, ascending
Where(m) == WhereIn(m, 1, Len(m))

\* a[m] / a[m, :] for a boolean vector m: the rows of a where m is TRUE
BoolIndex(a, m) == Take(a, Where(m))

\* data[:, :-1]: every row without its last column
AllButLastColumn(d) == [i \in 1..Len(d) |-> SubSeq(d[i], 1, Len(d[i]) - 1)]

\* data[:, -1]: the last column
LastColumn(d) == [i \in 1..Len(d) |-> d[i][Len(d[i])]]

\* a.shape of a matrix whose rows have cols columns, and of a vector
Shape2(a, cols) == <<Len(a), cols>>
Shape1(a) == <<Len(a)>>

----------------------------------------------------------------------------
(* The library calls the cells make.                                         *)

\* rng.permutation(n) for RandomState(seed): the shuffle is a function of n
\* and the seed alone.  The generator's stream is stood for by a multiplier
\* coprime to n and an offset, both drawn from the seed: row i goes to
\* position (multiplier * i + offset) mod n.
Multiplier(n, seed) ==
    LET start == (31 * seed) % n
        t == CHOOSE u \in 0..(n - 1) :
                 /\ Gcd(((start + u) % n) + 1, n) = 1
                 /\ \A v \in 0..(u - 1) : Gcd(((start + v) % n) + 1, n) # 1
    IN  ((start + t) % n) + 1

Permutation(n, seed) ==
    LET m == Multiplier(n, seed)
        c == (17 * seed) % n
    IN  SubSeq([i \in 1..n |-> ((m * i + c) % n) + 1], 1, n)

\* the test rows counted with the floor in place of the ceiling
NTestFloor(n, test_size) == (test_size[1] * n) \div test_size[2]

\* _validate_shuffle_split: n_test = ceil(test_size * n_samples) and, no
\* train_size being given, n_train = n_samples - n_test.  test_size is the
\* fraction <<numerator, denominator>> the call site writes as a decimal.
NTest(n, test_size) == Ceil(test_size[1] * n, test_size[2])
NTrain(n, test_size) == n - NTest(n, test_size)

\* ShuffleSplit: the first n_test entries of the permutation are the test rows,
\* the next n_train entries the training rows
TestIndices(n, test_size, seed) ==
    SubSeq(Permutation(n, seed), 1, NTest(n, test_size))
\* the training rows read one position early: the last test row is drawn again
TrainIndicesOverlap(n, test_size, seed) ==
    SubSeq(Permutation(n, seed), NTest(n, test_size), n - 1)

TrainIndices(n, test_size, seed) ==
    SubSeq(Permutation(n, seed), NTest(n, test_size) + 1, n)

\* train_test_split(X, y, test_size=.., random_state=..) raises ValueError when
\* the training set would be empty
SplitRaises(a, test_size) == NTrain(Len(a), test_size) = 0

\* train_test_split(X, y, test_size=.., random_state=..): both arrays indexed
\* by the same train and test row numbers
train_test_split(a, b, test_size, seed) ==
    LET tr == TrainIndices(Len(a), test_size, seed)
        te == TestIndices(Len(a), test_size, seed)
    IN  [X_train |-> Take(a, tr), X_test |-> Take(a, te),
         y_train |-> Take(b, tr), y_test |-> Take(b, te),
         train_idx |-> tr, test_idx |-> te]

\* LinearRegression(): an estimator not yet fit
Unfitted == [fitted |-> FALSE, coef |-> QInt(0), intercept |-> QInt(0)]

\* LinearRegression.fit raises ValueError on an array with 0 samples
FitRaises(a) == Len(a) = 0

\* LinearRegression.fit(X_train, y_train) for a single feature column:
\* ordinary least squares with intercept; when the column is constant the
\* minimum-norm solution has slope 0 and the intercept is the mean target
Fit(a, b) ==
    LET n   == Len(a)
        xs  == [i \in 1..n |-> a[i][1]]
        sx  == Sum(xs)
        sy  == Sum(b)
        sxx == Sum([i \in 1..n |-> xs[i] * xs[i]])
        sxy == Sum([i \in 1..n |-> xs[i] * b[i]])
        den == n * sxx - sx * sx
        w   == IF den = 0 THEN QInt(0) ELSE Q(n * sxy - sx * sy, den)
    IN  [fitted |-> TRUE, coef |-> w,
         intercept |-> QDiv(QSub(QInt(sy), QMul(w, QInt(sx))), QInt(n))]

\* model.predict(X_test): one prediction per row
Predict(m, a) ==
    [i \in 1..Len(a) |-> QAdd(m.intercept, QMul(m.coef, QInt(a[i][1])))]

\* the mean of the signed differences
MeanSignedError(y_true, y_pred) ==
    QDiv(QSum([i \in 1..Len(y_true) |-> QSub(QInt(y_true[i]), y_pred[i])]),
         QInt(Len(y_true)))

\* mean_absolute_error(y_true, y_pred): the mean over the rows of
\* |y_true - y_pred|; y_true holds integers, y_pred fractions
mean_absolute_error(y_true, y_pred) ==
    QDiv(QSum([i \in 1..Len(y_true) |->
                  QAbs(QSub(QInt(y_true[i]), y_pred[i]))]),
         QInt(Len(y_true)))

\* '%.3f' % v for v >= 0: v in thousandths, rounded to the nearest, a tie to
\* the even neighbour (a tie whose binary representation is inexact may go the
\* other way in the interpreter)
Format3(v) ==
    LET n  == v[1] * 1000
        fl == n \div v[2]
        r2 == 2 * (n % v[2])
    IN  IF r2 > v[2] \/ (r2 = v[2] /\ fl % 2 = 1) THEN fl + 1 ELSE fl

----------------------------------------------------------------------------
(* The code cells.                                                           *)

Cells == {"baseline", "iso", "ee", "lof", "svm"}
DetectionCells == Cells \ {"baseline"}

\* the one-class SVM cell seeding its split differently
SplitArgsOtherSeed(c) ==
    [test_size |-> <<33, 100>>, random_state |-> IF c = "svm" THEN 2 ELSE 1]

\* the arguments each cell passes to train_test_split: test_size=0.33,
\* random_state=1
SplitArgs(c) ==
    CASE c = "baseline" -> [test_size |-> <<33, 100>>, random_state |-> 1]
      [] c = "iso"      -> [test_size |-> <<33, 100>>, random_state |-> 1]
      [] c = "ee"       -> [test_size |-> <<33, 100>>, random_state |-> 1]
      [] c = "lof"      -> [test_size |-> <<33, 100>>, random_state |-> 1]
      [] c = "svm"      -> [test_size |-> <<33, 100>>, random_state |-> 1]

\* the estimator each detection cell constructs, the variable it binds it to
\* and the expected outlier fraction it passes (LocalOutlierFactor() passes
\* none)
Detector(c) ==
    CASE c = "iso" -> [var |-> "iso", cls |-> "IsolationForest",
                       given |-> TRUE, fraction |-> <<1, 10>>]
      [] c = "ee"  -> [var |-> "ee", cls |-> "EllipticEnvelope",
                       given |-> TRUE, fraction |-> <<1, 100>>]
      [] c = "lof" -> [var |-> "lof", cls |-> "LocalOutlierFactor",
                       given |-> FALSE, fraction |-> <<0, 1>>]
      [] c = "svm" -> [var |-> "ee", cls |-> "OneClassSVM",
                       given |-> TRUE, fraction |-> <<1, 100>>]

\* the local outlier factor cell alone comparing yhat with the inlier label
OutlierLabelLofInlier(c) == IF c = "lof" THEN 1 ELSE -1

\* every cell comparing yhat with the inlier label instead
OutlierLabelInlier(c) == 1

\* the label each detection cell compares yhat with: mask = yhat != -1
OutlierLabel(c) ==
    CASE c = "iso" -> -1
      [] c = "ee"  -> -1
      [] c = "lof" -> -1
      [] c = "svm" -> -1

\* every cell fitting its detector on the whole dataset
DetectorInputAll(c, ns) == ns.X

\* the array each detection cell passes to fit_predict
DetectorInput(c, ns) ==
    CASE c = "iso" -> ns.X_train
      [] c = "ee"  -> ns.X_train
      [] c = "lof" -> ns.X_train
      [] c = "svm" -> ns.X_train

\* the labels fit_predict returns: -1 for an outlier, 1 for an inlier
Labels == {-1, 1}

\* the label vectors a detector may return for n rows: every vector when n is
\* small, and for the reference dataset the vectors that flag the first k rows
LabelVectors(n) ==
    IF n <= MaxRows THEN [1..n -> Labels]
    ELSE {[i \in 1..n |-> IF i <= k THEN -1 ELSE 1] : k \in 0..34}

----------------------------------------------------------------------------
(* The kernel.                                                               *)

VARIABLES
    csv,        \* the rows of the file at the url (no header, target last)
    cell,       \* the cell being executed, or the one executed last
    pc,         \* the statement the kernel is at, "idle" between cells
    out,        \* the output area of that cell
    bound,      \* the names bound in the kernel's namespace
    data, X, y,
    X_train, X_test, y_train, y_test,
    yhat, mask, model, mae,
    iso, ee, lof,
    train_idx, test_idx  \* the row numbers the latest split drew

vars == <<csv, cell, pc, out, bound, data, X, y, X_train, X_test, y_train,
          y_test, yhat, mask, model, mae, iso, ee, lof, train_idx, test_idx>>

arrays == <<data, X, y>>
splits == <<X_train, X_test, y_train, y_test, train_idx, test_idx>>
detectors == <<iso, ee, lof>>

NoDetector == [cls |-> "none", given |-> FALSE, fraction |-> <<0, 1>>,
               fit_on |-> <<>>]

\* the feature columns of the small datasets: constant, all distinct, and
\* with repeated values
FeatureColumns(n) ==
    {[i \in 1..n |-> 0], [i \in 1..n |-> i], [i \in 1..n |-> i % 2]}

\* their target columns: constant, linear in the row number, and neither
TargetColumns(n) ==
    {[i \in 1..n |-> 1], [i \in 1..n |-> i], [i \in 1..n |-> (i * i) % 3]}

\* the small datasets: one feature column and the target, 1..MaxRows rows
Datasets ==
    UNION {{[i \in 1..n |-> <<f[i], t[i]>>] :
               f \in FeatureColumns(n), t \in TargetColumns(n)} :
           n \in 1..MaxRows}

\* a fresh kernel: nothing bound
Fresh ==
    /\ cell = "none" /\ pc = "idle" /\ out = <<>> /\ bound = {}
    /\ data = <<>> /\ X = <<>> /\ y = <<>>
    /\ X_train = <<>> /\ X_test = <<>> /\ y_train = <<>> /\ y_test = <<>>
    /\ yhat = <<>> /\ mask = <<>> /\ model = Unfitted /\ mae = QInt(0)
    /\ iso = NoDetector /\ ee = NoDetector /\ lof = NoDetector
    /\ train_idx = <<>> /\ test_idx = <<>>

Init == csv \in Datasets /\ Fresh

\* an uncaught exception ends the cell with a traceback in its output
Raise(e) == pc' = "idle" /\ out' = Append(out, <<"Error", e>>)

\* the user executes cell c
Run(c) ==
    /\ pc = "idle"
    /\ cell' = c /\ pc' = "load" /\ out' = <<>>
    /\ UNCHANGED <<csv, bound, arrays, splits, yhat, mask, model, mae, detectors>>

\* df = read_csv(url, header=None); data = df.values;
\* X, y = data[:, :-1], data[:, -1]
Load ==
    /\ pc = "load"
    /\ data' = csv
    /\ X' = AllButLastColumn(csv)
    /\ y' = LastColumn(csv)
    /\ bound' = bound \cup {"data", "X", "y"}
    /\ pc' = "split"
    /\ UNCHANGED <<csv, cell, out, splits, yhat, mask, model, mae, detectors>>

\* a cell that goes on with the split an earlier cell left behind
SplitKept ==
    /\ pc = "split"
    /\ pc' = IF cell = "baseline" THEN "fit" ELSE "shape"
    /\ UNCHANGED <<csv, cell, out, bound, arrays, splits, yhat, mask, model,
                   mae, detectors>>

\* X_train, X_test, y_train, y_test = train_test_split(X, y, test_size=0.33,
\*                                                     random_state=1)
Split ==
    /\ pc = "split"
    /\ LET a == SplitArgs(cell)
           s == train_test_split(X, y, a.test_size, a.random_state)
       IN  IF SplitRaises(X, a.test_size)
           THEN /\ Raise("ValueError")
                /\ UNCHANGED <<bound, splits>>
           ELSE /\ X_train' = s.X_train /\ X_test' = s.X_test
                /\ y_train' = s.y_train /\ y_test' = s.y_test
                /\ train_idx' = s.train_idx /\ test_idx' = s.test_idx
                /\ bound' = bound \cup {"X_train", "X_test", "y_train", "y_test"}
                /\ pc' = IF cell = "baseline" THEN "fit" ELSE "shape"
                /\ out' = out
    /\ UNCHANGED <<csv, cell, arrays, yhat, mask, model, mae, detectors>>

\* the line print(X_train.shape, y_train.shape) writes
ShapeLine == <<"shape", Shape2(X_train, Len(X[1])), Shape1(y_train)>>

\* print(X_train.shape, y_train.shape), before the detection
PrintShape ==
    /\ pc = "shape"
    /\ out' = Append(out, ShapeLine)
    /\ pc' = "detect"
    /\ UNCHANGED <<csv, cell, bound, arrays, splits, yhat, mask, model, mae,
                   detectors>>

\* iso = IsolationForest(contamination=0.1); yhat = iso.fit_predict(X_train)
\* and its three siblings
Detect ==
    /\ pc = "detect"
    /\ LET d  == Detector(cell)
           a  == DetectorInput(cell, [X |-> X, X_train |-> X_train,
                                      X_test |-> X_test])
           e  == [cls |-> d.cls, given |-> d.given, fraction |-> d.fraction,
                  fit_on |-> a]
       IN  /\ \E l \in LabelVectors(Len(a)) : yhat' = l
           /\ iso' = IF d.var = "iso" THEN e ELSE iso
           /\ ee'  = IF d.var = "ee" THEN e ELSE ee
           /\ lof' = IF d.var = "lof" THEN e ELSE lof
           /\ bound' = bound \cup {d.var, "yhat"}
    /\ pc' = "mask"
    /\ UNCHANGED <<csv, cell, out, arrays, splits, mask, model, mae>>

\* a mask that flags every row for retention, whatever its label
MaskKeepsEveryRow ==
    /\ pc = "mask"
    /\ mask' = [i \in 1..Len(yhat) |-> TRUE]
    /\ bound' = bound \cup {"mask"}
    /\ pc' = "filter"
    /\ UNCHANGED <<csv, cell, out, arrays, splits, yhat, model, mae, detectors>>

\* mask = yhat != -1
Mask ==
    /\ pc = "mask"
    /\ mask' = [i \in 1..Len(yhat) |-> yhat[i] # OutlierLabel(cell)]
    /\ bound' = bound \cup {"mask"}
    /\ pc' = "filter"
    /\ UNCHANGED <<csv, cell, out, arrays, splits, yhat, model, mae, detectors>>

\* X_train, y_train = X_train[mask, :], y_train[mask]
Filter ==
    /\ pc = "filter"
    /\ X_train' = BoolIndex(X_train, mask)
    /\ y_train' = BoolIndex(y_train, mask)
    /\ pc' = "shape2"
    /\ UNCHANGED <<csv, cell, out, bound, arrays, X_test, y_test, train_idx,
                   test_idx, yhat, mask, model, mae, detectors>>

\* print(X_train.shape, y_train.shape), after the filtering
PrintFiltered ==
    /\ pc = "shape2"
    /\ out' = Append(out, ShapeLine)
    /\ pc' = "fit"
    /\ UNCHANGED <<csv, cell, bound, arrays, splits, yhat, mask, model, mae,
                   detectors>>

\* the model fit on the training set as the split left it, outliers included
FitModelUnfiltered ==
    /\ pc = "fit"
    /\ bound' = bound \cup {"model"}
    /\ IF FitRaises(X_train)
       THEN model' = Unfitted /\ Raise("ValueError")
       ELSE /\ model' = Fit(Take(X, train_idx), Take(y, train_idx))
            /\ pc' = "predict" /\ out' = out
    /\ UNCHANGED <<csv, cell, arrays, splits, yhat, mask, mae, detectors>>

\* model = LinearRegression(); model.fit(X_train, y_train)
FitModel ==
    /\ pc = "fit"
    /\ bound' = bound \cup {"model"}
    /\ IF FitRaises(X_train)
       THEN model' = Unfitted /\ Raise("ValueError")
       ELSE model' = Fit(X_train, y_train) /\ pc' = "predict" /\ out' = out
    /\ UNCHANGED <<csv, cell, arrays, splits, yhat, mask, mae, detectors>>

\* yhat = model.predict(X_test)
PredictTest ==
    /\ pc = "predict"
    /\ yhat' = Predict(model, X_test)
    /\ bound' = bound \cup {"yhat"}
    /\ pc' = "mae"
    /\ UNCHANGED <<csv, cell, out, arrays, splits, mask, model, mae, detectors>>

\* mae = mean_absolute_error(y_test, yhat)
Evaluate ==
    /\ pc = "mae"
    /\ mae' = mean_absolute_error(y_test, yhat)
    /\ bound' = bound \cup {"mae"}
    /\ pc' = "print"
    /\ UNCHANGED <<csv, cell, out, arrays, splits, yhat, mask, model, detectors>>

\* print('MAE: %.3f' % mae), the last statement of the cell
PrintMae ==
    /\ pc = "print"
    /\ out' = Append(out, <<"MAE", Format3(mae)>>)
    /\ pc' = "idle"
    /\ UNCHANGED <<csv, cell, bound, arrays, splits, yhat, mask, model, mae,
                   detectors>>

Next ==
    \/ \E c \in Cells : Run(c)
    \/ Load
    \/ Split
    \/ PrintShape
    \/ Detect
    \/ Mask
    \/ Filter
    \/ PrintFiltered
    \/ FitModel
    \/ PredictTest
    \/ Evaluate
    \/ PrintMae

Spec == Init /\ [][Next]_vars

----------------------------------------------------------------------------
(* What the properties below speak of.                                       *)

\* the statements of a detection cell at which X_train is already filtered
AfterFilter == {"shape2", "fit", "predict", "mae", "print"}

\* the statements at which the split of the running cell is done
AfterSplit == {"shape", "detect", "mask", "filter"} \cup AfterFilter

\* a detection cell is running and yhat holds the labels of its detector
LabelsInYhat == cell \in DetectionCells /\ pc \in {"mask", "filter", "shape2", "fit"}

\* a detection cell is past its filtering statement, running or finished (a
\* finished cell that got this far has printed both shape lines)
Filtered ==
    /\ cell \in DetectionCells
    /\ \/ pc \in AfterFilter
       \/ pc = "idle" /\ Len(out) >= 2

\* the number of rows of a label vector that carry label l
CountLabel(v, l) == Cardinality({i \in 1..Len(v) : v[i] = l})

\* the number of TRUE flags of a mask, and the position of its k-th TRUE flag
Retained(m) == Cardinality({i \in 1..Len(m) : m[i]})
KthTrue(m, k) ==
    CHOOSE i \in 1..Len(m) : m[i] /\ Cardinality({j \in 1..i : m[j]}) = k

\* the estimator bound to the variable the running detection cell uses
CurrentDetector ==
    CASE Detector(cell).var = "iso" -> iso
      [] Detector(cell).var = "ee"  -> ee
      [] Detector(cell).var = "lof" -> lof

----------------------------------------------------------------------------
\* C1: in every detection cell, once the training set is filtered, the row
\* count of the filtered feature matrix and that of the filtered target vector
\* both equal the row count printed before the filtering minus the number of
\* rows the detector labelled -1; the second shape line prints that count.
C1_FilteredRowCount ==
    (LabelsInYhat /\ pc \in {"shape2", "fit"}) =>
        LET before   == out[1][2][1]
            flagged  == CountLabel(yhat, -1)
        IN  /\ before = Len(train_idx)
            /\ Len(X_train) = before - flagged
            /\ Len(y_train) = before - flagged
            /\ pc = "fit" =>
                   /\ out[2][2][1] = before - flagged
                   /\ out[2][3][1] = before - flagged

\* a detection cell has filtered a training set of 3 rows of which the
\* detector flagged exactly one, and has printed both shapes
C1_Witness ==
    /\ LabelsInYhat /\ pc = "fit" /\ cell = "svm"
    /\ Len(yhat) = 3 /\ CountLabel(yhat, -1) = 1
    /\ Len(X_train) = 2 /\ Len(y_train) = 2

\* C2: after the filtering the feature matrix and the target vector have the
\* same number of rows, one per TRUE flag of the mask, and for every k the
\* k-th filtered feature row and the k-th filtered target are those of the
\* original row the split put at the position of the k-th TRUE flag: the
\* sub-sequences at the TRUE positions, in their original relative order.
C2_RowCorrespondence ==
    Filtered =>
        /\ Len(mask) = Len(train_idx)
        /\ Len(X_train) = Retained(mask)
        /\ Len(y_train) = Retained(mask)
        /\ \A k \in 1..Retained(mask) :
               /\ X_train[k] = X[train_idx[KthTrue(mask, k)]]
               /\ y_train[k] = y[train_idx[KthTrue(mask, k)]]

\* a training set of three distinct rows whose first row was removed and whose
\* other two rows were kept
C2_Witness ==
    /\ Filtered /\ pc = "shape2"
    /\ mask = <<FALSE, TRUE, TRUE>>
    /\ X_train[1] # X_train[2] /\ y_train[1] # y_train[2]

\* C3: in every detection cell the detector is fit on the training features
\* of the split alone, and from the split to the end of the cell X_test and
\* y_test are the test rows the split drew, every one of them: the model
\* predicts one value per held-out row and the MAE is taken over all of them.
C3_TrainingOnly ==
    (cell \in DetectionCells) =>
        /\ pc \in AfterSplit =>
               /\ X_test = Take(X, test_idx)
               /\ y_test = Take(y, test_idx)
               /\ Len(test_idx) = NTest(Len(csv), SplitArgs(cell).test_size)
        /\ pc \in ({"mask", "filter"} \cup AfterFilter) =>
               CurrentDetector.fit_on = Take(X, train_idx)
        /\ pc \in {"mae", "print"} =>
               /\ Len(yhat) = Len(test_idx)
               /\ yhat = Predict(model, Take(X, test_idx))
        /\ pc = "print" =>
               mae = mean_absolute_error(Take(y, test_idx), yhat)

\* a detection cell that removed a training row has evaluated its model and
\* holds one prediction for each of the two held-out rows
C3_Witness ==
    /\ cell \in DetectionCells /\ pc = "print"
    /\ Retained(mask) < Len(mask)
    /\ Len(test_idx) = 2 /\ Len(yhat) = 2


\* the rows of a feature matrix paired with their targets, as a bag
RowBag(a, b) ==
    [r \in {<<a[i], b[i]>> : i \in 1..Len(a)} |->
        Cardinality({i \in 1..Len(a) : <<a[i], b[i]>> = r})]

Range(f) == {f[i] : i \in DOMAIN f}


\* the split of the running cell is done and X_train, y_train still hold it
Unfiltered ==
    \/ cell = "baseline" /\ pc \in AfterSplit
    \/ cell \in DetectionCells /\ pc \in {"shape", "detect", "mask", "filter"}

\* the variables train_test_split assigns and the filtering leaves alone
heldout == <<X_test, y_test, train_idx, test_idx>>

\* C4: after train_test_split the row numbers of the training subset and of
\* the test subset are disjoint and together are every row number of the
\* dataset, each once; every feature row is still paired with its own target,
\* so the (features, target) rows of the two subsets together are the rows of
\* the dataset, each as often as the dataset holds it.  The split is made by
\* the split statement alone, which a cell reaches once, straight from the load.
C4_SplitIsPartition ==
    /\ [](pc \in AfterSplit =>
            /\ Range(train_idx) \cap Range(test_idx) = {}
            /\ Range(train_idx) \cup Range(test_idx) = 1..Len(csv)
            /\ Len(train_idx) + Len(test_idx) = Len(csv)
            /\ X_test = Take(X, test_idx) /\ y_test = Take(y, test_idx)
            /\ Unfiltered =>
                   /\ X_train = Take(X, train_idx)
                   /\ y_train = Take(y, train_idx)
                   /\ RowBag(X_train, y_train) (+) RowBag(X_test, y_test)
                          = RowBag(AllButLastColumn(csv), LastColumn(csv)))
    /\ [][/\ heldout' # heldout => pc = "split"
          /\ pc' = "split" => pc = "load"
          /\ pc = "split" => pc' \in {"shape", "fit", "idle"}]_vars

\* the baseline cell has split a dataset of five rows, two of them equal, into
\* three training rows and two test rows
C4_Witness ==
    /\ cell = "baseline" /\ pc = "fit"
    /\ Len(train_idx) = 3 /\ Len(test_idx) = 2
    /\ \E i, j \in 1..Len(csv) : i # j /\ csv[i] = csv[j]


\* what a cell computes when it is the first one a fresh kernel executes: the
\* arrays it loads and the split it makes of them
FirstX == AllButLastColumn(csv)
FirstY == LastColumn(csv)
FirstSplit(c) ==
    train_test_split(FirstX, FirstY, SplitArgs(c).test_size,
                     SplitArgs(c).random_state)

\* the output cell c leaves when a fresh kernel executes it and its detector
\* (if it has one) returns the labels that give mask m
FirstOutput(c, m) ==
    LET s      == FirstSplit(c)
        xt     == IF c = "baseline" THEN s.X_train ELSE BoolIndex(s.X_train, m)
        yt     == IF c = "baseline" THEN s.y_train ELSE BoolIndex(s.y_train, m)
        cols   == Len(FirstX[1])
        shapes == IF c = "baseline" THEN <<>>
                  ELSE << <<"shape", <<Len(s.X_train), cols>>, <<Len(s.y_train)>> >>,
                          <<"shape", <<Len(xt), cols>>, <<Len(yt)>> >> >>
    IN  IF SplitRaises(FirstX, SplitArgs(c).test_size)
        THEN << <<"Error", "ValueError">> >>
        ELSE IF FitRaises(xt)
        THEN Append(shapes, <<"Error", "ValueError">>)
        ELSE Append(shapes,
                    <<"MAE", Format3(mean_absolute_error(s.y_test,
                                        Predict(Fit(xt, yt), s.X_test)))>>)

\* the names each statement reads
Reads ==
    CASE pc = "split"   -> {"X", "y"}
      [] pc = "shape"   -> {"X_train", "y_train"}
      [] pc = "detect"  -> {"X_train"}
      [] pc = "mask"    -> {"yhat"}
      [] pc = "filter"  -> {"X_train", "y_train", "mask"}
      [] pc = "shape2"  -> {"X_train", "y_train"}
      [] pc = "fit"     -> {"X_train", "y_train"}
      [] pc = "predict" -> {"model", "X_test"}
      [] pc = "mae"     -> {"y_test", "yhat"}
      [] pc = "print"   -> {"mae"}
      [] OTHER          -> {}

\* C6: whatever cells were executed before, in whatever order, a cell reads
\* only names it has bound itself, and the values it reads are those a fresh
\* kernel would hold at the same statement: the arrays are those of the file,
\* the split is the split of the whole file (a detection cell filters the
\* full training set of the split, never one an earlier cell shrank), the
\* model is fit on this run's training set, the predictions are this run's
\* model's, and the output the cell leaves is the output a fresh kernel would
\* print for the same detector labels.
C6_NoStateBetweenCells ==
    LET first == FirstSplit(cell)
    IN  /\ Reads \subseteq bound
        /\ pc \in ({"split"} \cup AfterSplit) =>
               data = csv /\ X = FirstX /\ y = FirstY
        /\ pc \in AfterSplit =>
               X_test = first.X_test /\ y_test = first.y_test
        /\ Unfiltered =>
               X_train = first.X_train /\ y_train = first.y_train
        /\ LabelsInYhat => Len(yhat) = Len(first.X_train)
        /\ (cell \in DetectionCells /\ pc \in AfterFilter) =>
               /\ X_train = BoolIndex(first.X_train, mask)
               /\ y_train = BoolIndex(first.y_train, mask)
        /\ pc \in {"predict", "mae", "print"} => model = Fit(X_train, y_train)
        /\ pc \in {"mae", "print"} => yhat = Predict(model, first.X_test)
        /\ pc = "print" => mae = mean_absolute_error(first.y_test, yhat)
        /\ (pc = "idle" /\ cell # "none") => out = FirstOutput(cell, mask)

\* a detection cell is about to filter the full training set of three rows,
\* although the cell executed before it left a model fit on fewer rows and an
\* MAE in the namespace
C6_Witness ==
    /\ cell \in DetectionCells /\ pc = "filter"
    /\ Len(X_train) = 3
    /\ "mae" \in bound /\ model.fitted
    /\ \E m \in [1..3 -> BOOLEAN] :
           /\ Retained(m) \in 1..2
           /\ model = Fit(BoolIndex(X_train, m), BoolIndex(y_train, m))
           /\ model # Fit(X_train, y_train)

\* the split statement of the running cell has just assigned its four arrays
JustSplit ==
    \/ cell = "baseline" /\ pc = "fit"
    \/ cell \in DetectionCells /\ pc = "shape"

\* C7: the split a cell obtains is the split every one of the five cells
\* computes from the same arrays with its own test_size and random_state: all
\* cells, the baseline included, start from the same training set and the
\* same test set.
C7_SameSplitInEveryCell ==
    JustSplit =>
        \A c \in Cells :
            LET s == train_test_split(X, y, SplitArgs(c).test_size,
                                      SplitArgs(c).random_state)
            IN  /\ X_train = s.X_train /\ y_train = s.y_train
                /\ X_test = s.X_test /\ y_test = s.y_test

\* the one-class SVM cell has split five rows whose order matters: another
\* seed would have drawn other training rows
C7_Witness ==
    /\ cell = "svm" /\ pc = "shape"
    /\ Len(X_train) = 3 /\ Len(X_test) = 2
    /\ X_train # train_test_split(X, y, <<33, 100>>, 2).X_train

\* C8: a detection cell does with its detector's labels what every other
\* detection cell would do with them: the detector was given the array any of
\* the four cells passes (the training features of the split) and returned one
\* label per training row, the mask is the one any of the four cells derives
\* from these labels, the filtered training set is the one that mask selects,
\* and the output the cell leaves is the output any of the four cells leaves
\* for that mask.
C8_StrategiesSubstitutable ==
    \A c \in DetectionCells :
        /\ (LabelsInYhat /\ pc # "mask") =>
               LET m == [i \in 1..Len(yhat) |-> yhat[i] # OutlierLabel(c)]
                   a == DetectorInput(c, [X |-> X, X_train |-> Take(X, train_idx),
                                          X_test |-> X_test])
               IN  /\ CurrentDetector.fit_on = a
                   /\ Len(yhat) = Len(a)
                   /\ mask = m
                   /\ pc # "filter" =>
                          /\ X_train = BoolIndex(Take(X, train_idx), m)
                          /\ y_train = BoolIndex(Take(y, train_idx), m)
        /\ (cell \in DetectionCells /\ pc = "idle") =>
               out = FirstOutput(c, mask)

\* the local outlier factor cell has finished with an MAE after its detector
\* flagged one of three training rows
C8_Witness ==
    /\ cell = "lof" /\ pc = "idle"
    /\ Len(mask) = 3 /\ Retained(mask) = 2
    /\ Len(out) = 3 /\ out[3][1] = "MAE"


----------------------------------------------------------------------------
(* mean_absolute_error on arbitrary targets and predictions.                 *)

\* test targets and predictions of the same length
TestTargets == UNION {[1..n -> 0..MaxErr] : n \in 1..MaxTest}
Predictions(n) == [1..n -> {Q(k, 2) : k \in (-MaxErr)..MaxErr}]

\* the kernel at the statement mae = mean_absolute_error(y_test, yhat), with
\* any targets in y_test and any predictions in yhat
InitMAE ==
    /\ csv = <<>> /\ cell = "baseline" /\ pc = "mae" /\ out = <<>>
    /\ bound = {"y_test", "yhat"}
    /\ data = <<>> /\ X = <<>> /\ y = <<>>
    /\ X_train = <<>> /\ X_test = <<>> /\ y_train = <<>>
    /\ y_test \in TestTargets
    /\ yhat \in Predictions(Len(y_test))
    /\ mask = <<>> /\ model = Unfitted /\ mae = QInt(0)
    /\ iso = NoDetector /\ ee = NoDetector /\ lof = NoDetector
    /\ train_idx = <<>> /\ test_idx = <<>>

NextMAE == Evaluate \/ PrintMae

SpecMAE == InitMAE /\ [][NextMAE]_vars

\* C9: the MAE the cell has just computed from y_test and yhat is not
\* negative, and it is zero only when every prediction equals its target.
C9_MaeNonNegative ==
    pc = "print" =>
        /\ ~QLess(mae, QInt(0))
        /\ mae = QInt(0) =>
               \A i \in 1..Len(y_test) : yhat[i] = QInt(y_test[i])

\* two held-out rows, one predicted too low and one too high by as much: the
\* signed errors cancel and the MAE is positive
C9_Witness ==
    /\ pc = "print" /\ Len(y_test) = 2
    /\ QLess(yhat[1], QInt(y_test[1]))
    /\ QLess(QInt(y_test[2]), yhat[2])
    /\ QAdd(QSub(QInt(y_test[1]), yhat[1]), QSub(QInt(y_test[2]), yhat[2]))
           = QInt(0)
    /\ QLess(QInt(0), mae)

----------------------------------------------------------------------------
(* The cells on a dataset of the shape of the reference housing dataset.     *)

\* the file the url names has 506 rows of 13 features and the target; the
\* entries stand for its values, which the cells' shapes do not depend on
RefDataset == [i \in 1..506 |-> [j \in 1..14 |-> (i * j) % 50]]

InitRef == csv = RefDataset /\ Fresh

\* the statements of a cell up to the second shape line
NextRef ==
    \/ \E c \in Cells : Run(c)
    \/ Load
    \/ Split
    \/ PrintShape
    \/ Detect
    \/ Mask
    \/ Filter
    \/ PrintFiltered

SpecRef == InitRef /\ [][NextRef]_vars

\* C10: on the reference dataset the split leaves 339 training rows of 13
\* feature columns with 339 targets and 167 test rows, and the first line a
\* detection cell prints is the shape (339, 13) (339,).
C10_ReferenceShapes ==
    /\ pc \in AfterSplit =>
           /\ Len(X_test) = 167 /\ Len(y_test) = 167
           /\ \A i \in 1..Len(X_test) : Len(X_test[i]) = 13
    /\ Unfiltered =>
           /\ Len(X_train) = 339 /\ Len(y_train) = 339
           /\ \A i \in 1..Len(X_train) : Len(X_train[i]) = 13
    /\ (cell \in DetectionCells /\ Len(out) >= 1) =>
           out[1] = <<"shape", <<339, 13>>, <<339>>>>

\* the one-class SVM cell has printed the shape of its training set and is
\* about to fit its detector
C10_Witness ==
    /\ cell = "svm" /\ pc = "detect"
    /\ out = << <<"shape", <<339, 13>>, <<339>>>> >>
    /\ Len(csv) = 506

----------------------------------------------------------------------------
(* The mask and the labels it is derived from.                               *)

\* the positions of a label vector whose label is not l, ascending
PositionsNot(v, l) ==
    SelectSeq([i \in 1..Len(v) |-> i], LAMBDA i : v[i] # l)

\* C11: once a detection cell has computed its mask, the mask holds one
\* boolean per row of the training set the split drew, and flag i is TRUE
\* exactly when the detector's label of row i is not -1.  After the filtering
\* the training set is the rows whose label is not -1, in their order: all of
\* the split's training rows when no label is -1, none when every label is.
C11_MaskFromLabels ==
    (LabelsInYhat /\ pc # "mask") =>
        LET n    == Len(train_idx)
            kept == PositionsNot(yhat, -1)
        IN  /\ DOMAIN mask = 1..n
            /\ DOMAIN yhat = 1..n
            /\ \A i \in 1..n : mask[i] \in BOOLEAN /\ (mask[i] <=> yhat[i] # -1)
            /\ pc # "filter" =>
                   /\ X_train = [k \in 1..Len(kept) |-> X[train_idx[kept[k]]]]
                   /\ y_train = [k \in 1..Len(kept) |-> y[train_idx[kept[k]]]]
                   /\ CountLabel(yhat, -1) = 0 =>
                          /\ X_train = Take(X, train_idx)
                          /\ y_train = Take(y, train_idx)
                   /\ CountLabel(yhat, -1) = n =>
                          X_train = <<>> /\ y_train = <<>>

\* the detector labelled every one of three training rows -1: the mask is
\* three FALSE flags and the filtered training set, already printed, is empty
C11_Witness ==
    /\ LabelsInYhat /\ pc = "fit"
    /\ yhat = <<-1, -1, -1>> /\ mask = <<FALSE, FALSE, FALSE>>
    /\ X_train = <<>> /\ y_train = <<>>
    /\ out[2] = <<"shape", <<0, 1>>, <<0>>>>

----------------------------------------------------------------------------
(* The order of the statements of a detection cell.                          *)

\* the statements of a detection cell, in the order the cell lists them
DetectionOrder ==
    <<"load", "split", "shape", "detect", "mask", "filter", "shape2", "fit",
      "predict", "mae", "print">>

\* the statement that follows statement p in a detection cell
Following(p) ==
    LET k == CHOOSE j \in 1..Len(DetectionOrder) : DetectionOrder[j] = p
    IN  IF k = Len(DetectionOrder) THEN "idle" ELSE DetectionOrder[k + 1]

\* the statements that can raise, ending the cell early
MayRaise == {"split", "fit"}

\* C12: a detection cell executes load, split, shape, detect, mask, filter,
\* shape, fit, predict, mae, print in this order, leaving it only at its end
\* or by an exception of the split or of the fit.  yhat is assigned by the
\* detector and by the prediction alone, the mask by the mask statement alone,
\* from a yhat that holds the detector's labels of the training rows, and the
\* model by the fit statement alone, after the filtering: from the prediction
\* on the model is the one fit on the rows the mask retained.
C12_StepOrder ==
    /\ [](cell \in DetectionCells =>
            /\ pc = "mask" => yhat \in [1..Len(train_idx) -> Labels]
            /\ pc \in {"filter", "shape2", "fit"} =>
                   /\ yhat \in [1..Len(train_idx) -> Labels]
                   /\ mask = [i \in 1..Len(train_idx) |-> yhat[i] # -1]
            /\ pc \in {"predict", "mae", "print"} =>
                   /\ Retained(mask) > 0
                   /\ model = Fit(BoolIndex(Take(X, train_idx), mask),
                                  BoolIndex(Take(y, train_idx), mask))
            /\ pc \in {"mae", "print"} => yhat = Predict(model, X_test))
    /\ [][(cell \in DetectionCells /\ pc # "idle") =>
            /\ cell' = cell
            /\ \/ pc' = Following(pc)
               \/ /\ pc \in MayRaise /\ pc' = "idle"
                  /\ out' = Append(out, <<"Error", "ValueError">>)
            /\ pc \notin {"detect", "predict"} => yhat' = yhat
            /\ pc # "mask" => mask' = mask
            /\ pc # "fit" => model' = model
            /\ pc \notin {"split", "filter"} =>
                   X_train' = X_train /\ y_train' = y_train
            /\ pc # "mae" => mae' = mae]_vars

\* a detection cell that removed a training row is at the MAE statement: yhat
\* holds the two predictions of a model that differs from the one the whole
\* training set would have given
C12_Witness ==
    /\ cell \in DetectionCells /\ pc = "mae"
    /\ Len(mask) = 3 /\ Retained(mask) = 2
    /\ model # Fit(Take(X, train_idx), Take(y, train_idx))
    /\ Len(yhat) = 2 /\ yhat = Predict(model, X_test)

=============================================================================
